---- MODULE Spec2Model ----
(***************************************************************************)
(* FeatureExtractor (src/features_extractor.py) and its use by the         *)
(* /predict endpoint (src/server/server.py).                               *)
(*                                                                         *)
(* Numbers: Python's float results (mean, true division) are modelled as   *)
(* exact rationals [n, d] in lowest terms, d > 0; NaN is [n = 0, d = 0].   *)
(* A delimited text ("5,7") is modelled by the token list str.split(',')   *)
(* returns (<<"5", "7">>; the empty text "" gives <<"">>), and int() by    *)
(* IntOf / IsIntLiteral.                                                   *)
(***************************************************************************)
EXTENDS Integers, Sequences, FiniteSets, TLC

VARIABLES
    history,       \* self.history: the table read at construction
    df,            \* the request frame handed to the accessors
    results,       \* what each get_all_features call on df returned, in order
    history_info   \* what the latest _get_history_info call returned

vars == <<history, df, results, history_info>>

-----------------------------------------------------------------------------
(* Bounds and input domains *)

MaxEvents == 3
MaxRows == 2
MaxCalls == 2

SessionGap == 6
Publisher1 == 1
Publisher2 == 2

UserIds == {5, 7}
Hours == {0, 6, 11}
HourStarts == {0, 6, 11, 20}
HourEnds == {6, 26}

\* The price list of the drawn tables: one price for hour 0, another afterwards.
CpmAt(hour) == IF hour = 0 THEN 1 ELSE 3

\* One row of history.tsv; every drawn row was shown on publisher 1.
Event(user_id, hour) ==
    [user_id |-> user_id, hour |-> hour, publisher |-> 1, cpm |-> CpmAt(hour)]

Events == {Event(u, h) : u \in UserIds, h \in Hours}
Histories == UNION {[1..n -> Events] : n \in 0..MaxEvents}

-----------------------------------------------------------------------------
(* Numbers *)

RECURSIVE GCD(_, _)
GCD(a, b) == IF b = 0 THEN a ELSE GCD(b, a % b)

Abs(x) == IF x < 0 THEN -x ELSE x

Rat(n, d) == LET g == GCD(Abs(n), d) IN [n |-> n \div g, d |-> d \div g]
RatInt(n) == [n |-> n, d |-> 1]
NaN == [n |-> 0, d |-> 0]
isnan(x) == x.d = 0

RatAdd(a, b) == Rat(a.n * b.d + b.n * a.d, a.d * b.d)
RatSub(a, b) == Rat(a.n * b.d - b.n * a.d, a.d * b.d)
RatDivInt(a, k) == Rat(a.n, a.d * k)
RatLess(a, b) == a.n * b.d < b.n * a.d

\* clip with the lower bound dropped
clipNothing(x, lower) == x

\* Series.clip(lower=...)
clip(x, lower) == IF RatLess(x, lower) THEN lower ELSE x

-----------------------------------------------------------------------------
(* Sequences of integers: sum, sorted(), unique(), np.diff, mean *)

RECURSIVE SumSeq(_)
SumSeq(s) == IF s = <<>> THEN 0 ELSE Head(s) + SumSeq(Tail(s))

RECURSIVE Insert(_, _)
Insert(x, s) ==
    IF s = <<>> THEN <<x>>
    ELSE IF x < Head(s) THEN <<x>> \o s
    ELSE <<Head(s)>> \o Insert(x, Tail(s))

\* sorted(...) / sort_values('hour'): ascending, duplicates kept
RECURSIVE sorted(_)
sorted(s) == IF s = <<>> THEN <<>> ELSE Insert(s[Len(s)], sorted(SubSeq(s, 1, Len(s) - 1)))

InSeq(x, s) == \E i \in 1..Len(s) : s[i] = x

\* Series.unique(): first occurrences, in order of appearance
RECURSIVE unique(_)
unique(s) ==
    IF s = <<>> THEN <<>>
    ELSE LET u == unique(SubSeq(s, 1, Len(s) - 1))
         IN  IF InSeq(s[Len(s)], u) THEN u ELSE Append(u, s[Len(s)])

\* np.diff
diff(s) == [i \in 1..(Len(s) - 1) |-> s[i + 1] - s[i]]

\* np.mean of a non-empty sequence; Series.mean() of an empty one is NaN
mean(s) == IF Len(s) = 0 THEN NaN ELSE Rat(SumSeq(s), Len(s))

SeqMax(s) == CHOOSE x \in {s[i] : i \in 1..Len(s)} : \A j \in 1..Len(s) : s[j] <= x
SeqMin(s) == CHOOSE x \in {s[i] : i \in 1..Len(s)} : \A j \in 1..Len(s) : s[j] >= x

-----------------------------------------------------------------------------
(* Parsing of delimited integer lists *)

IntLiterals == {"1", "2", "3", "5", "7"}

IsIntLiteral(tok) == tok \in IntLiterals

IntOf(tok) ==
    CASE tok = "1" -> 1
      [] tok = "2" -> 2
      [] tok = "3" -> 3
      [] tok = "5" -> 5
      [] tok = "7" -> 7

\* [int(i) for i in text.split(',')]: ValueError on the first token int() rejects
Parses(tokens) == \A i \in 1..Len(tokens) : IsIntLiteral(tokens[i])
ParseIntList(tokens) == [i \in 1..Len(tokens) |-> IntOf(tokens[i])]

-----------------------------------------------------------------------------
(* pandas selections on the history table *)

\* The slice with the request's own first hour let in (<= for <)
UsersHistoryShownThroughStart(hist, users_ids, hour_start) ==
    LET Keep(e) == InSeq(e.user_id, users_ids) /\ e.hour <= hour_start
    IN  SelectSeq(hist, Keep)

\* self.history[(self.history['user_id'].isin(users_ids)) & (self.history['hour'] < hour_start)]
UsersHistoryShown(hist, users_ids, hour_start) ==
    LET Keep(e) == InSeq(e.user_id, users_ids) /\ e.hour < hour_start
    IN  SelectSeq(hist, Keep)

HourColumn(rows) == [i \in 1..Len(rows) |-> rows[i].hour]
CpmColumn(rows) == [i \in 1..Len(rows) |-> rows[i].cpm]
UserColumn(rows) == [i \in 1..Len(rows) |-> rows[i].user_id]

\* groupby('user_id'): the keys present, ascending; each group keeps table order
GroupKeys(rows) == sorted(unique(UserColumn(rows)))
Group(rows, user_id) ==
    LET Mine(e) == e.user_id = user_id
    IN  SelectSeq(rows, Mine)

-----------------------------------------------------------------------------
(* _get_history_info *)

\* lines 31-33: one group's contribution to avg_time_between_ads
AddMeanGap(acc, hours) ==
    IF Len(hours) > 1 THEN RatAdd(acc, mean(diff(hours))) ELSE acc

\* The loop with .unique() forgotten
RECURSIVE TimeBetweenAdsLoopNoUnique(_, _, _)
TimeBetweenAdsLoopNoUnique(shown, keys, acc) ==
    IF keys = <<>> THEN acc
    ELSE TimeBetweenAdsLoopNoUnique(shown, Tail(keys),
             AddMeanGap(acc, sorted(HourColumn(Group(shown, Head(keys))))))

\* lines 30-33: the loop over the groups, accumulating avg_time_between_ads
RECURSIVE TimeBetweenAdsLoop(_, _, _)
TimeBetweenAdsLoop(shown, keys, acc) ==
    IF keys = <<>> THEN acc
    ELSE TimeBetweenAdsLoop(shown, Tail(keys),
             AddMeanGap(acc, sorted(unique(HourColumn(Group(shown, Head(keys)))))))

\* The mean of an empty slice passed on as it is
NanKept(x) == x

\* line 37: cpm_mean if not np.isnan(cpm_mean) else 0
NanToZero(x) == IF ~isnan(x) THEN x ELSE RatInt(0)

\* lines 25-40: the features of the slice users_history_shown, for len(users_ids) = n
SliceFeatures(users_history_shown, n) ==
    [history_cpm_mean |-> NanToZero(mean(CpmColumn(users_history_shown))),
     adv_shown_freq |->
         IF n > 0 THEN Rat(Len(users_history_shown), n) ELSE RatInt(0),
     avg_time_between_ads |->
         RatDivInt(TimeBetweenAdsLoop(users_history_shown,
                                      GroupKeys(users_history_shown), RatInt(0)),
                   IF n > 0 THEN n ELSE 1)]

\* lines 19-40: one row's history features (every token of user_ids is an integer)
HistoryFeatures(hist, row) ==
    SliceFeatures(UsersHistoryShown(hist, ParseIntList(row.user_ids), row.hour_start),
                  Len(row.user_ids))

\* A returned value or a raised exception: err = "" when the call returned.
Return(v) == [err |-> "", val |-> v]
Raise(e) == [err |-> e, val |-> <<>>]

_get_history_info(hist, frame) ==
    IF \E i \in 1..Len(frame.rows) : ~Parses(frame.rows[i].user_ids)
    THEN Raise("ValueError")
    ELSE Return([i \in 1..Len(frame.rows) |-> HistoryFeatures(hist, frame.rows[i])])

-----------------------------------------------------------------------------
(* _get_session_info *)

\* The loop measuring the gap from the session's first hour (current_session[0])
RECURSIVE SessionLoopFromFirst(_, _, _)
SessionLoopFromFirst(hours, sessions, current_session) ==
    IF hours = <<>> THEN Append(sessions, current_session)
    ELSE IF Head(hours) - current_session[1] > SessionGap
         THEN SessionLoopFromFirst(Tail(hours), Append(sessions, current_session),
                                   <<Head(hours)>>)
         ELSE SessionLoopFromFirst(Tail(hours), sessions,
                                   Append(current_session, Head(hours)))

\* lines 60-66: hours is what is left of group['hour'].iloc[1:]
RECURSIVE SessionLoop(_, _, _)
SessionLoop(hours, sessions, current_session) ==
    IF hours = <<>> THEN Append(sessions, current_session)
    ELSE IF Head(hours) - current_session[Len(current_session)] > SessionGap
         THEN SessionLoop(Tail(hours), Append(sessions, current_session), <<Head(hours)>>)
         ELSE SessionLoop(Tail(hours), sessions, Append(current_session, Head(hours)))

\* lines 59-66: the sessions of one user's hours, already sorted
Segment(hours) == SessionLoop(Tail(hours), <<>>, <<Head(hours)>>)

\* lines 57-66: the sessions of one user's group
Sessions(group) == Segment(sorted(HourColumn(group)))

SessionDurations(sessions) ==
    [k \in 1..Len(sessions) |-> SeqMax(sessions[k]) - SeqMin(sessions[k])]

\* lines 67-68
AddSessions(acc, sessions) ==
    [total_duration |-> acc.total_duration + SumSeq(SessionDurations(sessions)),
     session_count |-> acc.session_count + Len(sessions)]

\* lines 56-68: the loop over the groups; acc is [total_duration, session_count]
RECURSIVE SessionTotalsLoop(_, _, _)
SessionTotalsLoop(shown, keys, acc) ==
    IF keys = <<>> THEN acc
    ELSE SessionTotalsLoop(shown, Tail(keys),
             AddSessions(acc, Sessions(Group(shown, Head(keys)))))

\* line 69
AverageDuration(t) ==
    IF t.session_count > 0 THEN Rat(t.total_duration, t.session_count) ELSE RatInt(0)

SliceSessions(users_history_shown) ==
    AverageDuration(SessionTotalsLoop(users_history_shown, GroupKeys(users_history_shown),
                                      [total_duration |-> 0, session_count |-> 0]))

\* lines 49-70: one row's avg_session_duration
SessionFeature(hist, row) ==
    SliceSessions(UsersHistoryShown(hist, ParseIntList(row.user_ids), row.hour_start))

_get_session_info(hist, frame) ==
    IF \E i \in 1..Len(frame.rows) : ~Parses(frame.rows[i].user_ids)
    THEN Raise("ValueError")
    ELSE Return([i \in 1..Len(frame.rows) |-> SessionFeature(hist, frame.rows[i])])

-----------------------------------------------------------------------------
(* The request frame: its rows, whether it has a 'cpm' column, and the      *)
(* columns the accessors have written onto it (name -> one value per row).  *)

NoColumns == [c \in {} |-> <<>>]

\* pd.DataFrame(rows): a frame nothing has been written onto yet
NewFrame(rows, has_cpm) == [rows |-> rows, has_cpm |-> has_cpm, cache |-> NoColumns]

\* 'name' in df.columns, for the columns the accessors write
HasColumn(frame, name) == name \in DOMAIN frame.cache

\* df[name] = values
SetColumn(frame, name, values) ==
    [frame EXCEPT !.cache = [c \in (DOMAIN frame.cache) \cup {name} |->
                                IF c = name THEN values ELSE frame.cache[c]]]

\* How an accessor call ends: the frame as it left it, and what it returned or raised.
Returned(frame, v) == [df |-> frame, err |-> "", val |-> v]
Raised(frame, e) == [df |-> frame, err |-> e, val |-> <<>>]

RowIndex(frame) == 1..Len(frame.rows)

-----------------------------------------------------------------------------
(* The accessors *)

get_p1(frame) ==
    IF \E i \in RowIndex(frame) : ~Parses(frame.rows[i].publishers)
    THEN Raised(frame, "ValueError")
    ELSE Returned(frame, [i \in RowIndex(frame) |->
            IF InSeq(Publisher1, ParseIntList(frame.rows[i].publishers)) THEN 1 ELSE 0])

get_p2(frame) ==
    IF \E i \in RowIndex(frame) : ~Parses(frame.rows[i].publishers)
    THEN Raised(frame, "ValueError")
    ELSE Returned(frame, [i \in RowIndex(frame) |->
            IF InSeq(Publisher2, ParseIntList(frame.rows[i].publishers)) THEN 1 ELSE 0])

\* if name not in df.columns: df[name] = column
WriteOnce(frame, name, column) ==
    IF ~HasColumn(frame, name) THEN SetColumn(frame, name, column) ELSE frame

\* return df[name]
ReturnColumn(frame, name) == Returned(frame, frame.cache[name])

DelayColumn(frame) ==
    [i \in RowIndex(frame) |->
        RatInt(frame.rows[i].hour_end - frame.rows[i].hour_start)]

get_delay(frame) == ReturnColumn(WriteOnce(frame, "delay", DelayColumn(frame)), "delay")

\* The remaining time also written back onto the frame's 'delay' column
RemainingTimeWrittenBack(delay, info) ==
    IF info.err # "" THEN Raised(delay.df, info.err)
    ELSE ReturnColumn(SetColumn(delay.df, "delay", [i \in 1..Len(delay.val) |->
             clip(RatSub(delay.val[i], info.val[i].avg_time_between_ads), RatInt(0))]),
             "delay")

\* lines 109-110, given what get_delay and _get_history_info returned
RemainingTime(delay, info) ==
    IF info.err # "" THEN Raised(delay.df, info.err)
    ELSE Returned(delay.df, [i \in 1..Len(delay.val) |->
             clip(RatSub(delay.val[i], info.val[i].avg_time_between_ads), RatInt(0))])

get_remaining_time_to_next_ad(hist, frame) ==
    RemainingTime(get_delay(frame), _get_history_info(hist, frame))

get_cpm(frame) ==
    IF ~frame.has_cpm THEN Raised(frame, "KeyError")
    ELSE Returned(frame, [i \in RowIndex(frame) |-> frame.rows[i].cpm])

\* lines 124-126, given what _get_session_info returns when it is called
SessionColumn(frame, info) ==
    IF HasColumn(frame, "avg_session_duration")
    THEN ReturnColumn(frame, "avg_session_duration")
    ELSE IF info.err # "" THEN Raised(frame, info.err)
    ELSE ReturnColumn(SetColumn(frame, "avg_session_duration", info.val),
                      "avg_session_duration")

get_avg_session_duration(hist, frame) ==
    SessionColumn(frame, _get_session_info(hist, frame))

\* lines 133-135 and 142-144, given what _get_history_info returned
HistoryColumn(frame, info, name) ==
    IF info.err # "" THEN Raised(frame, info.err)
    ELSE ReturnColumn(WriteOnce(frame, name,
                          [i \in RowIndex(frame) |-> info.val[i][name]]), name)

get_history_cpm_mean(hist, frame) ==
    HistoryColumn(frame, _get_history_info(hist, frame), "history_cpm_mean")

get_adv_shown_freq(hist, frame) ==
    HistoryColumn(frame, _get_history_info(hist, frame), "adv_shown_freq")

\* The entries of the features dict, in the order the dict literal evaluates them.
FeatureNames ==
    <<"p1", "remaining_time_to_next_ad", "delay", "cpm", "p2",
      "avg_session_duration", "history_cpm_mean", "adv_shown_freq">>

Accessor(name, hist, frame) ==
    CASE name = "p1" -> get_p1(frame)
      [] name = "remaining_time_to_next_ad" -> get_remaining_time_to_next_ad(hist, frame)
      [] name = "delay" -> get_delay(frame)
      [] name = "cpm" -> get_cpm(frame)
      [] name = "p2" -> get_p2(frame)
      [] name = "avg_session_duration" -> get_avg_session_duration(hist, frame)
      [] name = "history_cpm_mean" -> get_history_cpm_mean(hist, frame)
      [] name = "adv_shown_freq" -> get_adv_shown_freq(hist, frame)

\* The dict is built entry by entry; the first exception ends the call and leaves on
\* the frame what the earlier entries wrote.
RECURSIVE BuildFeatures(_, _, _, _)
AddFeature(hist, names, features, call) ==
    IF call.err # "" THEN Raised(call.df, call.err)
    ELSE BuildFeatures(hist, call.df, Tail(names), features @@ (Head(names) :> call.val))

BuildFeatures(hist, frame, names, features) ==
    IF names = <<>> THEN Returned(frame, features)
    ELSE AddFeature(hist, names, features, Accessor(Head(names), hist, frame))

\* pd.DataFrame(features): one record per row of the frame
FeaturesFrame(n, built) ==
    IF built.err # "" THEN built
    ELSE Returned(built.df, [i \in 1..n |->
             [name \in DOMAIN built.val |-> built.val[name][i]]])

get_all_features(hist, frame) ==
    FeaturesFrame(Len(frame.rows), BuildFeatures(hist, frame, FeatureNames, <<>>))

\* What a call hands back to its caller: the value or the exception.
Outcome(call) == [err |-> call.err, val |-> call.val]

-----------------------------------------------------------------------------
(* The service: one request per call of /predict (server.py lines 61-63)   *)

UserIdTexts == {<<"5">>, <<"5", "7">>, <<"7", "5">>, <<"7", "5", "5">>, <<"">>}
PublisherTexts == {<<"2", "3">>}
RequestCpms == {2}
AudienceSizes == {10}

Requests ==
    [cpm : RequestCpms, hour_start : HourStarts, hour_end : HourEnds,
     publishers : PublisherTexts, audience_size : AudienceSizes, user_ids : UserIdTexts]

NotCalled == [err |-> "not called", val |-> <<>>]

\* What the latest _get_history_info call returned once get_all_features has run on
\* frame: get_remaining_time_to_next_ad makes the first such call, unless get_p1 raised.
HistoryInfoAfter(hist, frame, before) ==
    IF get_p1(frame).err = "" THEN _get_history_info(hist, frame) ELSE before

Init ==
    /\ history \in Histories
    /\ df = NewFrame(<<>>, TRUE)
    /\ results = <<>>
    /\ history_info = NotCalled

\* The handler is an async function with no await in it: the event loop runs one
\* call to completion before the next, so a call starts with no frame in flight.
Idle == Len(df.rows) = 0

Serve(data_df, features) ==
    /\ df' = features.df
    /\ results' = <<Outcome(features)>>
    /\ history_info' = HistoryInfoAfter(history, data_df, history_info)
    /\ history' = history

predict(data) ==
    /\ Idle
    /\ Serve(NewFrame(<<data>>, TRUE), get_all_features(history, NewFrame(<<data>>, TRUE)))

\* The handler returns (or raises HTTPException): data_df and features go out of scope.
respond ==
    /\ ~Idle
    /\ df' = NewFrame(<<>>, TRUE)
    /\ results' = <<>>
    /\ history_info' = NotCalled
    /\ history' = history

Next ==
    \/ \E data \in Requests : predict(data)
    \/ respond

Spec == Init /\ [][Next]_vars

-----------------------------------------------------------------------------
(* The extractor used as a library: one frame of several rows, the         *)
(* accessors and get_all_features called on it in any order.               *)

FrameUserIdTexts == {<<"5", "7">>, <<"x">>}
FramePublisherTexts == {<<"1", "2">>, <<"x">>}
FrameHourStarts == {20}
FrameHourEnds == {6, 26}

FrameRows ==
    [cpm : RequestCpms, hour_start : FrameHourStarts, hour_end : FrameHourEnds,
     publishers : FramePublisherTexts, audience_size : AudienceSizes,
     user_ids : FrameUserIdTexts]

Frames ==
    {NewFrame(rows, has_cpm) :
        rows \in UNION {[1..n -> FrameRows] : n \in 1..MaxRows}, has_cpm \in BOOLEAN}

FrameHistories ==
    {<<>>,
     <<Event(5, 11), Event(5, 0)>>,
     <<Event(7, 6), Event(5, 6), Event(7, 0)>>}

InitFrame ==
    /\ history \in FrameHistories
    /\ df \in Frames
    /\ results = <<>>
    /\ history_info = NotCalled

CallGetP1 ==
    /\ df' = get_p1(df).df
    /\ UNCHANGED <<history, results, history_info>>

CallGetP2 ==
    /\ df' = get_p2(df).df
    /\ UNCHANGED <<history, results, history_info>>

CallGetCpm ==
    /\ df' = get_cpm(df).df
    /\ UNCHANGED <<history, results, history_info>>

CallGetDelay ==
    /\ df' = get_delay(df).df
    /\ UNCHANGED <<history, results, history_info>>

CallGetRemainingTimeToNextAd ==
    /\ df' = get_remaining_time_to_next_ad(history, df).df
    /\ history_info' = _get_history_info(history, df)
    /\ UNCHANGED <<history, results>>

\* The accessor sorting self.history itself (sort_values(inplace=True))
SortedByHour(hist) ==
    LET order == sorted(HourColumn(hist))
    IN  [i \in 1..Len(hist) |->
            hist[CHOOSE j \in 1..Len(hist) :
                    /\ hist[j].hour = order[i]
                    /\ Cardinality({k \in 1..j : hist[k].hour = order[i]})
                           = Cardinality({k \in 1..i : order[k] = order[i]})]]

CallGetAvgSessionDurationSortingInPlace ==
    /\ df' = get_avg_session_duration(history, df).df
    /\ history' = SortedByHour(history)
    /\ UNCHANGED <<results, history_info>>

CallGetAvgSessionDuration ==
    /\ df' = get_avg_session_duration(history, df).df
    /\ UNCHANGED <<history, results, history_info>>

CallGetHistoryCpmMean ==
    /\ df' = get_history_cpm_mean(history, df).df
    /\ history_info' = _get_history_info(history, df)
    /\ UNCHANGED <<history, results>>

CallGetAdvShownFreq ==
    /\ df' = get_adv_shown_freq(history, df).df
    /\ history_info' = _get_history_info(history, df)
    /\ UNCHANGED <<history, results>>

Record(features) ==
    /\ df' = features.df
    /\ results' = Append(results, Outcome(features))

CallGetAllFeatures ==
    /\ Len(results) < MaxCalls
    /\ Record(get_all_features(history, df))
    /\ history_info' = HistoryInfoAfter(history, df, history_info)
    /\ history' = history

NextFrame ==
    \/ CallGetP1
    \/ CallGetP2
    \/ CallGetCpm
    \/ CallGetDelay
    \/ CallGetRemainingTimeToNextAd
    \/ CallGetAvgSessionDuration
    \/ CallGetHistoryCpmMean
    \/ CallGetAdvShownFreq
    \/ CallGetAllFeatures

SpecFrame == InitFrame /\ [][NextFrame]_vars

-----------------------------------------------------------------------------
(* Vocabulary of the properties, stated on sets rather than by the loops   *)

\* The service has computed the features of one request and not yet responded.
Served == Len(results) = 1 /\ Len(df.rows) = 1
Request == df.rows[1]
Answer == results[1]
Vector == results[1].val[1]
Zero == RatInt(0)

Cohort(row) == {IntOf(row.user_ids[i]) : i \in 1..Len(row.user_ids)}

\* The events of hist the row's history statistics may depend on.
InSlice(e, row) == e.user_id \in Cohort(row) /\ e.hour < row.hour_start
SliceIndex(hist, row) == {i \in 1..Len(hist) : InSlice(hist[i], row)}
ColdStart(hist, row) == SliceIndex(hist, row) = {}

\* The distinct hours of one user in the slice.
UserHours(hist, row, user_id) ==
    {hist[i].hour : i \in {j \in SliceIndex(hist, row) : hist[j].user_id = user_id}}

SetMax(S) == CHOOSE x \in S : \A y \in S : y <= x
SetMin(S) == CHOOSE x \in S : \A y \in S : y >= x

\* Neighbouring pairs of a set of hours, and those further apart than the gap.
Neighbours(D) == {p \in D \X D : p[1] < p[2] /\ ~\E c \in D : p[1] < c /\ c < p[2]}
Breaks(D) == {p \in Neighbours(D) : p[2] - p[1] > SessionGap}

RECURSIVE SumGaps(_)
SumGaps(P) ==
    IF P = {} THEN 0
    ELSE LET p == CHOOSE q \in P : TRUE IN (p[2] - p[1]) + SumGaps(P \ {p})

\* Mean of the consecutive gaps of a set of at least two hours.
MeanGap(D) == Rat(SumGaps(Neighbours(D)), Cardinality(D) - 1)

GapTerm(D) == IF Cardinality(D) >= 2 THEN MeanGap(D) ELSE Zero

RECURSIVE SpacingSum(_, _, _)
SpacingSum(hist, row, users) ==
    IF users = {} THEN Zero
    ELSE LET u == CHOOSE x \in users : TRUE
         IN  RatAdd(GapTerm(UserHours(hist, row, u)), SpacingSum(hist, row, users \ {u}))

\* avg_time_between_ads as the specification words it; the divisor is the number of
\* ids the request lists.
Spacing(hist, row) == RatDivInt(SpacingSum(hist, row, Cohort(row)), Len(row.user_ids))

\* Sessions of a non-empty set of hours: one more than its breaks, and their total
\* duration is the span less the breaks.
SessionCount(D) == 1 + Cardinality(Breaks(D))
SessionSpan(D) == (SetMax(D) - SetMin(D)) - SumGaps(Breaks(D))

RECURSIVE SessionTotals(_, _, _)
SessionTotals(hist, row, users) ==
    IF users = {} THEN [total |-> 0, count |-> 0]
    ELSE LET u == CHOOSE x \in users : TRUE
             D == UserHours(hist, row, u)
             rest == SessionTotals(hist, row, users \ {u})
         IN  IF D = {} THEN rest
             ELSE [total |-> rest.total + SessionSpan(D), count |-> rest.count + SessionCount(D)]

MeanSession(t) == IF t.count = 0 THEN Zero ELSE Rat(t.total, t.count)
SessionAverage(hist, row) == MeanSession(SessionTotals(hist, row, Cohort(row)))

Max0(x) == IF RatLess(x, Zero) THEN Zero ELSE x

\* The table with every event outside the row's slice removed.
RelevantHistory(hist, row) ==
    LET Keep(e) == InSlice(e, row)
    IN  SelectSeq(hist, Keep)

Delay(row) == RatInt(row.hour_end - row.hour_start)

HistoryStatisticsAreZero(v) ==
    /\ v.history_cpm_mean = Zero
    /\ v.adv_shown_freq = Zero
    /\ v.avg_session_duration = Zero

-----------------------------------------------------------------------------
(* Properties of the service (specification Spec) *)

\* C1. No lookahead: the feature vector of a request, and the history features
\* behind it, are those of the table with every event removed whose user is not in
\* the request's user_ids or whose hour is not strictly before hour_start; so
\* adding, removing or changing such events changes nothing.
C1_NoLookahead ==
    (Served /\ Parses(Request.user_ids)) =>
        /\ Answer = Outcome(get_all_features(RelevantHistory(history, Request),
                                             NewFrame(df.rows, TRUE)))
        /\ history_info = _get_history_info(RelevantHistory(history, Request), df)

C1_Witness ==
    /\ Served
    /\ Answer.err = ""
    /\ SliceIndex(history, Request) # {}
    /\ \E i \in 1..Len(history) :
           history[i].user_id \in Cohort(Request) /\ history[i].hour = Request.hour_start
    /\ \E i \in 1..Len(history) : history[i].user_id \notin Cohort(Request)

\* C2. A request whose user_ids text holds no ids is answered without a fault, with
\* adv_shown_freq, avg_time_between_ads, history_cpm_mean and avg_session_duration 0.
C2_EmptyCohortDefaults ==
    (Served /\ Request.user_ids = <<"">>) =>
        /\ Answer.err = ""
        /\ history_info.err = ""
        /\ HistoryStatisticsAreZero(Vector)
        /\ history_info.val[1].avg_time_between_ads = Zero

\* C3, as claimed. Cold start: with no event of the cohort before hour_start the four
\* history statistics are 0 and remaining_time_to_next_ad equals hour_end - hour_start,
\* whatever hour_start and hour_end are (stated for the cohorts that parse).
C3_ColdStartRemainingIsDelay ==
    (Served /\ Parses(Request.user_ids) /\ ColdStart(history, Request)) =>
        /\ Answer.err = ""
        /\ HistoryStatisticsAreZero(Vector)
        /\ history_info.val[1].avg_time_between_ads = Zero
        /\ Vector.remaining_time_to_next_ad = Delay(Request)

\* C3, amended. Cold start: for a request whose user_ids parse and with no event of
\* the cohort before hour_start, the four history statistics are 0, delay is
\* hour_end - hour_start and remaining_time_to_next_ad is max(0, delay): it equals
\* delay exactly when hour_end >= hour_start.
C3_ColdStartDefaults ==
    (Served /\ Parses(Request.user_ids) /\ ColdStart(history, Request)) =>
        /\ Answer.err = ""
        /\ HistoryStatisticsAreZero(Vector)
        /\ history_info.val[1].avg_time_between_ads = Zero
        /\ Vector.delay = Delay(Request)
        /\ Vector.remaining_time_to_next_ad = Max0(Delay(Request))

C3_Witness ==
    /\ Served
    /\ Parses(Request.user_ids)
    /\ ColdStart(history, Request)
    /\ Len(history) > 0
    /\ Request.hour_end < Request.hour_start
    /\ Vector.remaining_time_to_next_ad = Zero

IsAscending(hours) == \A i \in 1..(Len(hours) - 1) : hours[i] <= hours[i + 1]

SameHours(a, b) ==
    /\ Len(a) = Len(b)
    /\ \A h \in Hours :
           Cardinality({i \in 1..Len(a) : a[i] = h}) = Cardinality({i \in 1..Len(b) : b[i] = h})

RECURSIVE Flatten(_)
Flatten(sessions) ==
    IF sessions = <<>> THEN <<>> ELSE Head(sessions) \o Flatten(Tail(sessions))

MaximalRuns(sessions) ==
    /\ \A k \in 1..Len(sessions) :
           /\ Len(sessions[k]) > 0
           /\ \A j \in 1..(Len(sessions[k]) - 1) :
                  sessions[k][j + 1] - sessions[k][j] <= SessionGap
    /\ \A k \in 1..(Len(sessions) - 1) :
           sessions[k + 1][1] - sessions[k][Len(sessions[k])] > SessionGap

Partitions(sessions, group) ==
    /\ IsAscending(Flatten(sessions))
    /\ SameHours(Flatten(sessions), HourColumn(group))
    /\ MaximalRuns(sessions)

WellSegmented(group) == Partitions(Sessions(group), group)

\* C5. Session segmentation: for every cohort user the loop splits the user's
\* ascending hours (duplicates kept) into consecutive runs that partition them, a new
\* run starting exactly where an hour is more than 6 past the previous one; and
\* avg_session_duration is the sum of the runs' spans (max - min) over all cohort
\* users divided by the number of runs.
C5_SessionSegmentation ==
    (Served /\ Answer.err = "") =>
        /\ \A u \in Cohort(Request) :
               UserHours(history, Request, u) # {} =>
                   WellSegmented(Group(RelevantHistory(history, Request), u))
        /\ Vector.avg_session_duration = SessionAverage(history, Request)

C5_Witness ==
    /\ Served
    /\ Answer.err = ""
    /\ \E u \in Cohort(Request) : Cardinality(UserHours(history, Request, u)) = 3
    /\ Vector.avg_session_duration = RatInt(11)

\* C6. Inter-event spacing: avg_time_between_ads is the sum, over the cohort users
\* with at least two distinct hours in the slice, of the mean gap between the user's
\* consecutive distinct hours, divided by the number of ids the request lists (not by
\* the number of users that contribute).
C6_InterEventSpacing ==
    (Served /\ history_info.err = "") =>
        history_info.val[1].avg_time_between_ads = Spacing(history, Request)

C6_Witness ==
    /\ Served
    /\ history_info.err = ""
    /\ Len(Request.user_ids) = 2
    /\ \E u \in Cohort(Request) :
           /\ Cardinality(UserHours(history, Request, u)) = 2
           /\ Len(Group(RelevantHistory(history, Request), u)) = 3
    /\ \E u \in Cohort(Request) : UserHours(history, Request, u) = {}
    /\ history_info.val[1].avg_time_between_ads # Zero

SameCohort(text, row) == Parses(text) /\ Cohort([user_ids |-> text]) = Cohort(row)

\* C7. The cohort is a set: a request whose user_ids text lists the same ids in
\* another order or with repetitions gets the same feature vector.
C7_CohortIsASet ==
    (Served /\ Parses(Request.user_ids)) =>
        \A text \in UserIdTexts :
            SameCohort(text, Request) =>
                Answer = Outcome(get_all_features(history,
                             NewFrame(<<[Request EXCEPT !.user_ids = text]>>, TRUE)))

\* C9. remaining_time_to_next_ad is max(0, delay - avg_time_between_ads), and so is
\* never negative, also when hour_end < hour_start or the spacing exceeds the delay.
C9_RemainingTimeNeverNegative ==
    (Served /\ Answer.err = "") =>
        /\ Vector.remaining_time_to_next_ad
               = Max0(RatSub(Delay(Request), Spacing(history, Request)))
        /\ ~RatLess(Vector.remaining_time_to_next_ad, Zero)

C9_Witness ==
    /\ Served
    /\ Answer.err = ""
    /\ Request.hour_end < Request.hour_start
    /\ RatLess(Zero, Spacing(history, Request))
    /\ Vector.remaining_time_to_next_ad = Zero

-----------------------------------------------------------------------------
(* Properties of the extractor on one frame (specification SpecFrame) *)

RowParses(row) == Parses(row.user_ids) /\ Parses(row.publishers)

\* The feature vector of one row computed on its own.
VectorAlone(hist, row) == get_all_features(hist, NewFrame(<<row>>, TRUE)).val[1]

\* C4. Batch order with per-request error isolation: get_all_features on n rows gives
\* n results, result i that of row i; an unparsable row fails at its own index and the
\* vectors of the other rows are still produced.
C4_BatchErrorIsolation ==
    (df.has_cpm /\ \E i \in RowIndex(df) : RowParses(df.rows[i])) =>
        \A k \in 1..Len(results) :
            /\ Len(results[k].val) = Len(df.rows)
            /\ \A i \in RowIndex(df) :
                   RowParses(df.rows[i]) => results[k].val[i] = VectorAlone(history, df.rows[i])

\* C8. Idempotence: every get_all_features call on a frame returns what the first
\* call on it returned, whichever accessors wrote their columns onto the frame before
\* or between the calls.
C8_Idempotent == \A k \in 1..Len(results) : results[k] = results[1]

C8_Witness ==
    /\ Len(df.rows) = 2
    /\ Len(results) = 2
    /\ results[2].err = ""
    /\ results[2].val[1].remaining_time_to_next_ad # results[2].val[1].delay
    /\ DOMAIN df.cache =
           {"delay", "avg_session_duration", "history_cpm_mean", "adv_shown_freq"}

FrameOnlyGainsColumns ==
    /\ df'.rows = df.rows
    /\ df'.has_cpm = df.has_cpm
    /\ \A c \in DOMAIN df.cache : c \in DOMAIN df'.cache /\ df'.cache[c] = df.cache[c]

\* C10. The history table is read-only: no accessor call and no get_all_features
\* call, failing or not, changes it; the frame keeps its rows and the columns it has,
\* and may only gain columns.
C10_HistoryReadOnly == [][history' = history /\ FrameOnlyGainsColumns]_vars

C10_Witness ==
    /\ Len(results) >= 1
    /\ results[1].err = "ValueError"
    /\ HasColumn(df, "delay")
    /\ ~IsAscending(HourColumn(history))

====
